---- MODULE Spec2Model ----
(***************************************************************************)
(* State-machine model of hype_train: the Account trading worker           *)
(* (account.py), the per-asset tracker and ignition detector (asset.py),   *)
(* the Position liquidation policy (position.py) and the Wallet ledger     *)
(* (wallet.py).                                                            *)
(*                                                                         *)
(* Amounts are integers in the smallest money unit.  Order fills, tick     *)
(* prices, the venue's answers (rejection, timeout) and the asynchronous   *)
(* cancel signal are inputs of the environment, drawn from small sets.     *)
(***************************************************************************)
EXTENDS Integers, Sequences, FiniteSets, TLC

(***************************************************************************)
(* Configuration (Config.Trade) and venue parameters (ExchangeParams).     *)
(***************************************************************************)
IgnitesToTrigger == 2          \* trade.ignites_to_trigger
MaxCoinsToTrade == 2           \* trade.max_coins_to_trade
MinimumBuyPrice == 1           \* trade.minimum_buy_price
StopLossPct == 90              \* trade.stop_loss, in hundredths
TakeProfitPct == 105           \* trade.take_profit, in hundredths
TreasuryPct == 50              \* trade.treasury_ratio, in hundredths
DividendPct == 50              \* trade.dividend_from_profit, in hundredths
MinQty == 3                    \* ExchangeParams.min_qty
MinNotional == 1               \* ExchangeParams.min_price

(***************************************************************************)
(* Bounds of the model.                                                    *)
(***************************************************************************)
MaxBuys == 3                   \* buy orders the market lets the session fill
MaxHeldFor == 1                \* the held-for counter saturates here

Assets == {1, 2, 3}            \* keys of Account._assets, in iteration order
Prices == {1, 2}               \* Ticker.conversion_origin_asset
FillPrices == {2}              \* Order.price of a buy order
Outcomes == {0, 2, 4}          \* Order.outcome of a sell order
InitialBalances == {8}         \* Provider.get_account_balance() at start-up

NumAssets == Cardinality(Assets)

VARIABLES
    pc,             \* the worker's position inside Account.trade
    idx,            \* the asset the current close / open pass is at (0: none)
    cancel,         \* Account._trader_event
    window,         \* Asset._ticker_history, per asset, oldest first
    position,       \* Asset._position, per asset
    initialBalance, \* Wallet._initial_balance
    capital,        \* Wallet._capital
    savings,        \* Wallet._savings
    results,        \* Wallet._position_results
    exc,            \* the exception the last step raised ("none": it returned)
    ended,          \* how Account.trade ended ("running": it has not)
    buys,           \* buy orders filled at the venue so far
    flags           \* history: what has happened so far in the session

vars == <<pc, idx, cancel, window, position, initialBalance, capital, savings,
          results, exc, ended, buys, flags>>

assetVars == <<window, position>>
walletVars == <<initialBalance, capital, savings, results>>

(***************************************************************************)
(* providers/models.py                                                     *)
(***************************************************************************)
\* Order.pnl: (ratio, absolute) of a sell order against its buy order; the
\* ratio sell.outcome / buy.price is kept as the pair it is made of.
OrderPnlAbsolute(buyPrice, sellOutcome) == sellOutcome - buyPrice

OrderPnlRatioAbove(buyPrice, sellOutcome, pct) == sellOutcome * 100 > pct * buyPrice

OrderPnlRatioBelow(buyPrice, sellOutcome, pct) == sellOutcome * 100 < pct * buyPrice

\* Ticker.lots_to_buy with ExchangeParams.adjusted_lots: TRUE when the request
\* is rejected with AttributeError (lots below min_qty, or price below min_price).
LotsToBuyRejects(budget, price) ==
    LET lots == budget * price
    IN  \/ lots < MinQty
        \/ budget < MinNotional

\* ProviderMock.get_account_balance: an override amount takes precedence.
GetAccountBalance(override) == override

\* ProviderMock.sell_order: the real order is the simulated market order, so
\* it nets what the simulated quote on the same ticker netted.
SellOutcomes(quote) == {quote}

(***************************************************************************)
(* position.py                                                             *)
(***************************************************************************)
NoPosition == [open |-> FALSE, buyPrice |-> 0, heldFor |-> 0]

NoResult == [buy |-> 0, sell |-> 0, reason |-> "None"]
\* try_liquidate testing force before the two thresholds.
LiquidationReasonForceFirst(buyPrice, quote, force) ==
    IF force THEN "Forced"
    ELSE IF OrderPnlRatioBelow(buyPrice, quote, StopLossPct) THEN "StopLoss"
    ELSE IF ~OrderPnlRatioBelow(buyPrice, quote, TakeProfitPct) THEN "TakeProfit"
    ELSE "None"

\* The liquidation policy of Position.try_liquidate, on the simulated quote.
LiquidationReason(buyPrice, quote, force) ==
    IF OrderPnlRatioBelow(buyPrice, quote, StopLossPct) THEN "StopLoss"
    ELSE IF ~OrderPnlRatioBelow(buyPrice, quote, TakeProfitPct) THEN "TakeProfit"
    ELSE IF force THEN "Forced"
    ELSE "None"

\* try_liquidate without its held-for counter.
PositionTryLiquidateUncounted(pos, force, quote, venue, outcome) ==
    LET reason == LiquidationReason(pos.buyPrice, quote, force)
    IN  IF reason = "None"
          THEN [exc |-> "none", pos |-> pos, sold |-> FALSE, result |-> NoResult]
        ELSE IF venue = "reject"
          THEN [exc |-> "Venue", pos |-> pos, sold |-> FALSE, result |-> NoResult]
        ELSE IF venue = "timeout"
          THEN [exc |-> "Transient", pos |-> pos, sold |-> FALSE, result |-> NoResult]
        ELSE [exc |-> "none", pos |-> pos, sold |-> TRUE,
              result |-> [buy |-> pos.buyPrice, sell |-> outcome, reason |-> reason]]

\* Position.try_liquidate.  quote: outcome of the simulated sell order;
\* venue: what the venue answers to the real sell order ("ok", "reject": it
\* raises BinanceAPIException / AttributeError, "timeout": it raises
\* ReadTimeout); outcome: outcome of the real sell order.
PositionTryLiquidate(pos, force, quote, venue, outcome) ==
    LET held == [pos EXCEPT !.heldFor = IF @ < MaxHeldFor THEN @ + 1 ELSE @]
        reason == LiquidationReason(pos.buyPrice, quote, force)
    IN  IF reason = "None"
          THEN [exc |-> "none", pos |-> held, sold |-> FALSE, result |-> NoResult]
        ELSE IF venue = "reject"
          THEN [exc |-> "Venue", pos |-> held, sold |-> FALSE, result |-> NoResult]
        ELSE IF venue = "timeout"
          THEN [exc |-> "Transient", pos |-> held, sold |-> FALSE, result |-> NoResult]
        ELSE [exc |-> "none", pos |-> held, sold |-> TRUE,
              result |-> [buy |-> pos.buyPrice, sell |-> outcome, reason |-> reason]]

\* Position.__init__ sizing the request after the buy order was placed.
PositionInitSizesLate(budget, price, venue, fill) ==
    IF venue = "reject"
      THEN [exc |-> "Venue", pos |-> NoPosition, filled |-> FALSE]
    ELSE IF venue = "timeout"
      THEN [exc |-> "Transient", pos |-> NoPosition, filled |-> FALSE]
    ELSE IF LotsToBuyRejects(budget, price)
      THEN [exc |-> "Sizing", pos |-> NoPosition, filled |-> TRUE]
    ELSE IF venue = "timeout_balance"
      THEN [exc |-> "Transient", pos |-> NoPosition, filled |-> TRUE]
    ELSE [exc |-> "none", filled |-> TRUE,
          pos |-> [open |-> TRUE, buyPrice |-> fill, heldFor |-> 0]]

\* Position.__init__.  venue: "ok", "reject" (the buy order raises
\* BinanceAPIException), "timeout" (the buy order times out unfilled),
\* "timeout_balance" (the balance query after the fill times out).
PositionInit(budget, price, venue, fill) ==
    IF LotsToBuyRejects(budget, price)
      THEN [exc |-> "Sizing", pos |-> NoPosition, filled |-> FALSE]
    ELSE IF venue = "reject"
      THEN [exc |-> "Venue", pos |-> NoPosition, filled |-> FALSE]
    ELSE IF venue = "timeout"
      THEN [exc |-> "Transient", pos |-> NoPosition, filled |-> FALSE]
    ELSE IF venue = "timeout_balance"
      THEN [exc |-> "Transient", pos |-> NoPosition, filled |-> TRUE]
    ELSE [exc |-> "none", filled |-> TRUE,
          pos |-> [open |-> TRUE, buyPrice |-> fill, heldFor |-> 0]]

(***************************************************************************)
(* asset.py                                                                *)
(***************************************************************************)
WindowCapacity == IgnitesToTrigger + 2

\* _ticker_history[-k], k >= 1
FromEnd(w, k) == w[Len(w) + 1 - k]

\* A bounded window that drops the new item once it is full.
DequeAppendKeepsOldest(w, price, capacity) ==
    IF Len(w) < capacity THEN Append(w, price) ELSE w

\* deque(maxlen = capacity).append
DequeAppend(w, price, capacity) ==
    IF Len(w) < capacity THEN Append(w, price) ELSE Append(Tail(w), price)

\* Asset.log_ticker
LogTicker(w, price) == DequeAppend(w, price, WindowCapacity)

\* _was_ignited comparing the newest price with itself or an older one for
\* equality as well.
WasIgnitedForOrFlat(w, n) ==
    IF Len(w) < n + 1 THEN FALSE
    ELSE /\ \A i \in 0..(n - 1) : ~(FromEnd(w, 1 + i) < FromEnd(w, 2 + i))
         /\ FromEnd(w, 1) >= FromEnd(w, n)

\* _was_ignited with the result of its length test inverted.
WasIgnitedForShort(w, n) ==
    IF Len(w) < n + 1 THEN TRUE
    ELSE /\ \A i \in 0..(n - 1) : ~(FromEnd(w, 1 + i) < FromEnd(w, 2 + i))
         /\ FromEnd(w, 1) > FromEnd(w, n)

\* Asset._was_ignited with trade.ignites_to_trigger = n.  The final ratio
\* _ticker_history[-1] / _ticker_history[-n] > 1 is compared as the pair it
\* is made of (prices are positive).
WasIgnitedFor(w, n) ==
    IF Len(w) < n + 1 THEN FALSE
    ELSE /\ \A i \in 0..(n - 1) : ~(FromEnd(w, 1 + i) < FromEnd(w, 2 + i))
         /\ FromEnd(w, 1) > FromEnd(w, n)

\* Asset._was_ignited
WasIgnited(w) == WasIgnitedFor(w, IgnitesToTrigger)

\* try_open_position without its has_open_position test.
AssetTryOpenPositionOverwrites(pos, w, budget, venue, fill) ==
    IF WasIgnited(w)
      THEN LET p == PositionInit(budget, FromEnd(w, 1), venue, fill)
           IN  [exc |-> p.exc, pos |-> IF p.pos.open THEN p.pos ELSE pos,
                filled |-> p.filled, opened |-> p.pos.open]
    ELSE [exc |-> "none", pos |-> pos, filled |-> FALSE, opened |-> FALSE]

\* Asset.try_open_position
AssetTryOpenPosition(pos, w, budget, venue, fill) ==
    IF pos.open
      THEN [exc |-> "AlreadyOpen", pos |-> pos, filled |-> FALSE, opened |-> FALSE]
    ELSE IF WasIgnited(w)
      THEN LET p == PositionInit(budget, FromEnd(w, 1), venue, fill)
           IN  [exc |-> p.exc, pos |-> p.pos, filled |-> p.filled, opened |-> p.pos.open]
    ELSE [exc |-> "none", pos |-> pos, filled |-> FALSE, opened |-> FALSE]

\* try_liquidate_position keeping the position it has just sold.
AssetTryLiquidatePositionKeeps(pos, force, quote, venue, outcome) ==
    IF ~pos.open
      THEN [exc |-> "NotOpen", pos |-> pos, sold |-> FALSE, result |-> NoResult]
    ELSE PositionTryLiquidate(pos, force, quote, venue, outcome)

\* Asset.try_liquidate_position
AssetTryLiquidatePosition(pos, force, quote, venue, outcome) ==
    IF ~pos.open
      THEN [exc |-> "NotOpen", pos |-> pos, sold |-> FALSE, result |-> NoResult]
    ELSE LET r == PositionTryLiquidate(pos, force, quote, venue, outcome)
         IN  IF r.sold THEN [r EXCEPT !.pos = NoPosition] ELSE r

(***************************************************************************)
(* wallet.py                                                               *)
(***************************************************************************)
\* Wallet.__init__
WalletInitCapital(balance) == (balance * TreasuryPct) \div 100

\* total_pnl_absolute adding up the profitable results only.
TotalPnlAbsoluteOfProfits(res) ==
    LET total[i \in 0..Len(res)] ==
            IF i = 0 THEN 0
            ELSE IF res[i].sell > res[i].buy
              THEN total[i - 1] + OrderPnlAbsolute(res[i].buy, res[i].sell)
            ELSE total[i - 1]
    IN  total[Len(res)]

\* PositionResults.total_pnl_absolute: the loop over the recorded results.
TotalPnlAbsolute(res) ==
    LET total[i \in 0..Len(res)] ==
            IF i = 0 THEN 0
            ELSE total[i - 1] + OrderPnlAbsolute(res[i].buy, res[i].sell)
    IN  total[Len(res)]

\* Wallet.pnl; the ratio pnl_abs / initial_balance is kept as the pair it is
\* made of.
WalletPnl(res, balance) ==
    LET pnl_abs == TotalPnlAbsolute(res)
    IN  [absolute |-> pnl_abs, ratioNum |-> pnl_abs, ratioDen |-> balance]

\* budget_for_acquisition without its budget > capital test.
BudgetForAcquisitionUnchecked(cap, activePositions) ==
    IF activePositions >= MaxCoinsToTrade
      THEN [exc |-> "TooManySlots", budget |-> 0]
    ELSE LET slots == MaxCoinsToTrade - activePositions
             share == cap \div slots
             budget == IF share >= MinimumBuyPrice THEN share ELSE MinimumBuyPrice
         IN  [exc |-> "none", budget |-> budget]

\* Wallet.budget_for_acquisition
BudgetForAcquisition(cap, activePositions) ==
    IF activePositions >= MaxCoinsToTrade
      THEN [exc |-> "TooManySlots", budget |-> 0]
    ELSE LET slots == MaxCoinsToTrade - activePositions
             \* budget > capital, decided on the exact quotient
             over == IF cap >= MinimumBuyPrice * slots THEN cap > cap * slots
                     ELSE MinimumBuyPrice > cap
             share == cap \div slots
             budget == IF share >= MinimumBuyPrice THEN share ELSE MinimumBuyPrice
         IN  IF over THEN [exc |-> "Insufficient", budget |-> 0]
             ELSE [exc |-> "none", budget |-> budget]

\* record_acquisition leaving the capital as it was.
RecordAcquisitionForgets(cap, pos) == cap

\* Wallet.record_acquisition
RecordAcquisition(cap, pos) == cap - pos.buyPrice

\* record_sell taking its dividend from every result, profitable or not.
RecordSellAtAnyResult(cap, sav, res, result, balanceOk, dividendPct) ==
    LET absolute == OrderPnlAbsolute(result.buy, result.sell)
        dividend == (absolute * dividendPct) \div 100
        newBalance == GetAccountBalance(cap + sav + result.sell)
        newSavings == sav + dividend
        newCapital == newBalance - newSavings
    IN  IF ~balanceOk
          THEN [exc |-> "Transient", capital |-> cap, savings |-> sav,
                results |-> Append(res, result)]
        ELSE [exc |-> IF newCapital <= 0 THEN "Insufficient" ELSE "none",
              capital |-> newCapital, savings |-> newSavings,
              results |-> Append(res, result)]

\* record_sell raising InsufficientFunds on a negative capital only.
RecordSellAtNegativeOnly(cap, sav, res, result, balanceOk, dividendPct) ==
    LET absolute == OrderPnlAbsolute(result.buy, result.sell)
        dividend == IF OrderPnlRatioAbove(result.buy, result.sell, 100)
                      THEN (absolute * dividendPct) \div 100 ELSE 0
        newBalance == GetAccountBalance(cap + sav + result.sell)
        newSavings == sav + dividend
        newCapital == newBalance - newSavings
    IN  IF ~balanceOk
          THEN [exc |-> "Transient", capital |-> cap, savings |-> sav,
                results |-> Append(res, result)]
        ELSE [exc |-> IF newCapital < 0 THEN "Insufficient" ELSE "none",
              capital |-> newCapital, savings |-> newSavings,
              results |-> Append(res, result)]

\* Wallet.record_sell with trade.dividend_from_profit = dividendPct / 100.
\* balanceOk = FALSE: the balance query times out.
RecordSellAt(cap, sav, res, result, balanceOk, dividendPct) ==
    LET absolute == OrderPnlAbsolute(result.buy, result.sell)
        dividend == IF OrderPnlRatioAbove(result.buy, result.sell, 100)
                      THEN (absolute * dividendPct) \div 100 ELSE 0
        newBalance == GetAccountBalance(cap + sav + result.sell)
        newSavings == sav + dividend
        newCapital == newBalance - newSavings
    IN  IF ~balanceOk
          THEN [exc |-> "Transient", capital |-> cap, savings |-> sav,
                results |-> Append(res, result)]
        ELSE [exc |-> IF newCapital <= 0 THEN "Insufficient" ELSE "none",
              capital |-> newCapital, savings |-> newSavings,
              results |-> Append(res, result)]

\* Wallet.record_sell
RecordSell(cap, sav, res, result, balanceOk) ==
    RecordSellAt(cap, sav, res, result, balanceOk, DividendPct)

(***************************************************************************)
(* account.py                                                              *)
(***************************************************************************)
ActivePcs == {"active_fetch", "active_close", "active_open", "active_wait"}
DrainPcs == {"drain_check", "drain_fetch", "drain_close"}
ClosingPcs == {"closing_fetch", "closing_close"}

\* History kept beside the program's state.
NoFlags ==
    [iterCancelled |-> FALSE,   \* the last Active iteration started with the signal set
     insolvent |-> FALSE,       \* an InsufficientFundsException has been raised
     activeExit |-> "none",     \* what ended the Active loop
     budgetRefused |-> FALSE]   \* budget_for_acquisition raised InsufficientFundsException

Init ==
    /\ pc = "active_fetch"
    /\ idx = 0
    /\ cancel = FALSE
    /\ window = [a \in Assets |-> <<>>]
    /\ position = [a \in Assets |-> NoPosition]
    /\ initialBalance \in InitialBalances
    /\ capital = WalletInitCapital(initialBalance)
    /\ savings = initialBalance - capital
    /\ results = <<>>
    /\ exc = "none"
    /\ ended = "running"
    /\ buys = 0
    /\ flags = NoFlags

\* Account._count_open_positions
CountOpenPositions == Cardinality({a \in Assets : position[a].open})

\* A signal handler that also takes the worker out of the Active loop.
SetCancelPreempts ==
    /\ ~cancel
    /\ ended = "running"
    /\ cancel' = TRUE
    /\ pc' = IF pc \in ActivePcs THEN "drain_check" ELSE pc
    /\ UNCHANGED <<idx, window, position, initialBalance, capital, savings,
                   results, exc, ended, buys, flags>>

\* Account._killer_cb: the termination signal sets the event, at any moment.
SetCancel ==
    /\ ~cancel
    /\ ended = "running"
    /\ cancel' = TRUE
    /\ UNCHANGED <<pc, idx, window, position, initialBalance, capital, savings,
                   results, exc, ended, buys, flags>>

\* Account._fetch_asset_tickers, when the provider yields every ticker: one
\* market move per fetch, seen by every asset.  Once MaxBuys buy orders were
\* filled the market stays at its lowest price, which ignites no asset.
FetchTickers(price) ==
    /\ buys < MaxBuys \/ \A q \in Prices : price <= q
    /\ window' = [a \in Assets |-> LogTicker(window[a], price)]

\* The Active loop handling InsufficientFundsException like a timeout.
OnStepExceptionKeepsTrading(phase, e) ==
    IF e = "Insufficient" /\ phase = "drain"
      THEN [pc |-> "closing_fetch", ended |-> "running"]
    ELSE IF e = "Insufficient" /\ phase = "closing"
      THEN [pc |-> "done", ended |-> "insolvent_closing"]
    ELSE IF phase = "active" THEN [pc |-> "active_wait", ended |-> "running"]
    ELSE IF phase = "drain" THEN [pc |-> "done", ended |-> "transient_drain"]
    ELSE [pc |-> "done", ended |-> "transient_closing"]

\* What Account.trade does with an InsufficientFundsException ("Insufficient")
\* or a ReadTimeout / ConnectionError ("Transient") that a step of a pass raised.
OnStepException(phase, e) ==
    IF e = "Insufficient"
      THEN IF phase = "active" THEN [pc |-> "drain_check", ended |-> "running"]
           ELSE IF phase = "drain" THEN [pc |-> "closing_fetch", ended |-> "running"]
           ELSE [pc |-> "done", ended |-> "insolvent_closing"]
    ELSE IF phase = "active" THEN [pc |-> "active_wait", ended |-> "running"]
    ELSE IF phase = "drain" THEN [pc |-> "done", ended |-> "transient_drain"]
    ELSE [pc |-> "done", ended |-> "transient_closing"]
\* A RuntimeError from the Draining fetch handled with a break, so that the
\* sweep still runs.
OnFetchExceptionSweeps(phase, e) ==
    IF e = "Transient" THEN OnStepException(phase, e)
    ELSE IF phase = "active" THEN [pc |-> "done", ended |-> "fatal_active"]
    ELSE IF phase = "drain" THEN [pc |-> "closing_fetch", ended |-> "running"]
    ELSE [pc |-> "done", ended |-> "fatal_closing"]

\* What Account.trade does when the tick fetch of a phase raises: RuntimeError
\* ("Fatal") or ReadTimeout / ConnectionError ("Transient").
OnFetchException(phase, e) ==
    IF e = "Transient" THEN OnStepException(phase, e)
    ELSE IF phase = "active" THEN [pc |-> "done", ended |-> "fatal_active"]
    ELSE IF phase = "drain" THEN [pc |-> "done", ended |-> "fatal_drain"]
    ELSE [pc |-> "done", ended |-> "fatal_closing"]

\* Where Account.trade goes when a close pass has visited every asset.
AfterClosePass(phase) ==
    IF phase = "active" THEN [pc |-> "active_open", idx |-> 1, ended |-> "running"]
    ELSE IF phase = "drain" THEN [pc |-> "drain_check", idx |-> 0, ended |-> "running"]
    ELSE [pc |-> "done", idx |-> 0, ended |-> "completed"]

\* The tick fetch of a phase.
FetchStep(phase, here, next) ==
    /\ pc = here
    /\ \/ \E price \in Prices :
            /\ FetchTickers(price)
            /\ pc' = next
            /\ idx' = 1
            /\ exc' = "none"
            /\ ended' = ended
       \/ \E e \in {"Transient", "Fatal"} :
            LET on == OnFetchException(phase, e)
            IN  /\ exc' = e
                /\ pc' = on.pc
                /\ ended' = on.ended
                /\ idx' = 0
                /\ UNCHANGED window
    /\ flags' = IF phase = "active" THEN [flags EXCEPT !.iterCancelled = cancel]
                ELSE flags
    /\ UNCHANGED <<cancel, position, initialBalance, capital, savings, results, buys>>

\* A close pass that lets the AttributeError / BinanceAPIException of a sell
\* order through.
ClosePassPropagatesVenue(e) == e \in {"Insufficient", "Transient", "Venue"}

\* The exceptions the try block of _try_close_positions does not catch: it
\* catches PositionNotOpenedException, AttributeError (a sizing error) and
\* BinanceAPIException ("Venue"), and goes on to the next asset.
ClosePassPropagates(e) == e \in {"Insufficient", "Transient"}

\* The assets a pass at asset i still has to visit, in iteration order.
Rest(i) == {a \in Assets : a >= i}

First(S) == CHOOSE a \in S : \A b \in S : a <= b

HasOpenPosition(a) == position[a].open

HasNoPosition(a) == ~position[a].open

\* Account._try_close_positions(force): the pass skips the assets without a
\* position up to the next one that has one, and tries to liquidate that one;
\* with what trade() does when the step raises.
CloseStep(phase, here, force) ==
    /\ pc = here
    /\ LET todo == {a \in Rest(idx) : HasOpenPosition(a)}
           pass == AfterClosePass(phase)
       IN  IF todo = {}
             THEN /\ pc' = pass.pc
                  /\ idx' = pass.idx
                  /\ ended' = pass.ended
                  /\ exc' = "none"
                  /\ UNCHANGED <<position, capital, savings, results, flags>>
           ELSE \E quote \in Outcomes, balanceOk \in BOOLEAN,
                   venue \in {"ok", "reject", "timeout"} :
                \E outcome \in SellOutcomes(quote) :
                  LET a == First(todo)
                      r == AssetTryLiquidatePosition(position[a], force, quote, venue, outcome)
                      w == RecordSell(capital, savings, results, r.result, balanceOk)
                      e == IF r.sold THEN w.exc ELSE r.exc
                      raised == ClosePassPropagates(e)
                      on == OnStepException(phase, e)
                  IN  /\ position' = [position EXCEPT ![a] = r.pos]
                      /\ capital' = IF r.sold THEN w.capital ELSE capital
                      /\ savings' = IF r.sold THEN w.savings ELSE savings
                      /\ results' = IF r.sold THEN w.results ELSE results
                      /\ exc' = e
                      /\ pc' = IF raised THEN on.pc ELSE here
                      /\ idx' = IF raised THEN 0 ELSE a + 1
                      /\ ended' = IF raised THEN on.ended ELSE ended
                      /\ flags' = [flags EXCEPT
                           !.insolvent = @ \/ e = "Insufficient",
                           !.activeExit = IF phase = "active" /\ e = "Insufficient"
                                            THEN "insufficient" ELSE @]
    /\ UNCHANGED <<cancel, window, initialBalance, buys>>

\* An open pass that lets the AttributeError of budget_for_acquisition through.
OpenPassPropagatesTooManySlots(e) == e \in {"Insufficient", "Transient", "TooManySlots"}

\* The exceptions the try block of _try_open_new_positions does not catch:
\* it catches PositionAlreadyOpenedException, AttributeError (a sizing error,
\* too many slots) and BinanceAPIException, and goes on to the next asset.
OpenPassPropagates(e) == e \in {"Insufficient", "Transient"}

\* The open pass returning one position late.
SlotsExhaustedLate(count) == count > MaxCoinsToTrade

\* if self._count_open_positions() >= max_coins_to_trade: return
SlotsExhausted(count) == count >= MaxCoinsToTrade

\* An open pass that asks for a budget only once the asset's detector fired.
OpenStepDetectorFirst ==
    /\ pc = "active_open"
    /\ LET todo == {a \in Rest(idx) : HasNoPosition(a)}
           count == CountOpenPositions
       IN  IF SlotsExhausted(count) \/ todo = {}
             THEN /\ pc' = "active_wait"
                  /\ idx' = 0
                  /\ exc' = "none"
                  /\ UNCHANGED <<position, capital, buys, flags>>
           ELSE \E fill \in FillPrices,
                   venue \in {"ok", "reject", "timeout", "timeout_balance"} :
                  LET a == First(todo)
                      b == IF WasIgnited(window[a]) THEN BudgetForAcquisition(capital, count)
                           ELSE [exc |-> "none", budget |-> 0]
                      o == AssetTryOpenPosition(position[a], window[a], b.budget, venue, fill)
                      e == IF b.exc # "none" THEN b.exc ELSE o.exc
                      filled == b.exc = "none" /\ o.filled
                      opened == b.exc = "none" /\ o.opened
                      raised == OpenPassPropagates(e)
                      on == OnStepException("active", e)
                  IN  /\ position' = IF opened THEN [position EXCEPT ![a] = o.pos]
                                     ELSE position
                      /\ capital' = IF opened THEN RecordAcquisition(capital, o.pos)
                                    ELSE capital
                      /\ buys' = IF filled THEN buys + 1 ELSE buys
                      /\ exc' = e
                      /\ pc' = IF raised THEN on.pc ELSE "active_open"
                      /\ idx' = IF raised THEN 0 ELSE a + 1
                      /\ flags' = [flags EXCEPT
                           !.insolvent = @ \/ e = "Insufficient",
                           !.budgetRefused = @ \/ b.exc = "Insufficient",
                           !.activeExit = IF e = "Insufficient" THEN "insufficient" ELSE @]
    /\ UNCHANGED <<cancel, window, initialBalance, savings, results, ended>>

\* Account._try_open_new_positions: the pass returns when the open-position
\* count has reached max_coins_to_trade, skips the assets that have a position
\* up to the next one that has none, and asks a budget and tries to open for
\* that one; with what trade() does when the step raises.
OpenStep ==
    /\ pc = "active_open"
    /\ LET todo == {a \in Rest(idx) : HasNoPosition(a)}
           count == CountOpenPositions
       IN  IF SlotsExhausted(count) \/ todo = {}
             THEN /\ pc' = "active_wait"
                  /\ idx' = 0
                  /\ exc' = "none"
                  /\ UNCHANGED <<position, capital, buys, flags>>
           ELSE \E fill \in FillPrices,
                   venue \in {"ok", "reject", "timeout", "timeout_balance"} :
                  LET a == First(todo)
                      b == BudgetForAcquisition(capital, count)
                      o == AssetTryOpenPosition(position[a], window[a], b.budget, venue, fill)
                      e == IF b.exc # "none" THEN b.exc ELSE o.exc
                      filled == b.exc = "none" /\ o.filled
                      opened == b.exc = "none" /\ o.opened
                      raised == OpenPassPropagates(e)
                      on == OnStepException("active", e)
                  IN  /\ position' = IF opened THEN [position EXCEPT ![a] = o.pos]
                                     ELSE position
                      /\ capital' = IF opened THEN RecordAcquisition(capital, o.pos)
                                    ELSE capital
                      /\ buys' = IF filled THEN buys + 1 ELSE buys
                      /\ exc' = e
                      /\ pc' = IF raised THEN on.pc ELSE "active_open"
                      /\ idx' = IF raised THEN 0 ELSE a + 1
                      /\ flags' = [flags EXCEPT
                           !.insolvent = @ \/ e = "Insufficient",
                           !.budgetRefused = @ \/ b.exc = "Insufficient",
                           !.activeExit = IF e = "Insufficient" THEN "insufficient" ELSE @]
    /\ UNCHANGED <<cancel, window, initialBalance, savings, results, ended>>

\* Account.trade, the Active loop (lines 119-137)
ActiveFetch == FetchStep("active", "active_fetch", "active_close")

ActiveClose == CloseStep("active", "active_close", FALSE)

ActiveOpen == OpenStep

\* The interval wait with its result ignored.
ActiveWaitIgnoresEvent ==
    /\ pc = "active_wait"
    /\ pc' = "active_fetch"
    /\ exc' = "none"
    /\ UNCHANGED <<idx, cancel, window, position, initialBalance, capital, savings,
                   results, ended, buys, flags>>

\* self._trader_event.wait(update_interval_sec): TRUE when the event is set
\* when the wait returns, FALSE when the interval elapsed with the event unset.
ActiveWait ==
    /\ pc = "active_wait"
    /\ pc' = IF cancel THEN "drain_check" ELSE "active_fetch"
    /\ exc' = "none"
    /\ flags' = [flags EXCEPT !.activeExit = IF cancel THEN "cancel" ELSE @]
    /\ UNCHANGED <<idx, cancel, window, position, initialBalance, capital, savings,
                   results, ended, buys>>
\* Draining that hands over to the sweep whatever is still open.
DrainCheckSkipsDraining ==
    /\ pc = "drain_check"
    /\ pc' = "closing_fetch"
    /\ exc' = "none"
    /\ UNCHANGED <<idx, cancel, window, position, initialBalance, capital, savings,
                   results, ended, buys, flags>>

\* Account.trade, the Draining loop (lines 141-155); the sleep that ends a
\* cycle is part of the last step of its close pass.
DrainCheck ==
    /\ pc = "drain_check"
    /\ pc' = IF CountOpenPositions > 0 THEN "drain_fetch" ELSE "closing_fetch"
    /\ exc' = "none"
    /\ UNCHANGED <<idx, cancel, window, position, initialBalance, capital, savings,
                   results, ended, buys, flags>>

DrainFetch == FetchStep("drain", "drain_fetch", "drain_close")

\* The Draining close pass called with force.
DrainCloseForced == CloseStep("drain", "drain_close", TRUE)

DrainClose == CloseStep("drain", "drain_close", FALSE)

\* Account.trade, the Closing sweep (lines 156-159)
ClosingFetch == FetchStep("closing", "closing_fetch", "closing_close")

ClosingClose == CloseStep("closing", "closing_close", TRUE)

\* KeyboardInterrupt (trade() running on the main thread): caught at line 138
\* inside the Active loop and at line 154 inside the Draining loop.
KeyboardInterrupt ==
    /\ pc \in ActivePcs \cup DrainPcs
    /\ pc' = IF pc \in ActivePcs THEN "drain_check" ELSE "closing_fetch"
    /\ idx' = 0
    /\ exc' = "KeyboardInterrupt"
    /\ flags' = [flags EXCEPT !.activeExit = IF pc \in ActivePcs THEN "interrupt" ELSE @]
    /\ UNCHANGED <<cancel, window, position, initialBalance, capital, savings,
                   results, ended, buys>>

\* The steps of the worker thread.
Worker ==
    \/ ActiveFetch
    \/ ActiveClose
    \/ ActiveOpen
    \/ ActiveWait
    \/ DrainCheck
    \/ DrainFetch
    \/ DrainClose
    \/ ClosingFetch
    \/ ClosingClose

Next ==
    \/ Worker
    \/ SetCancel
    \/ KeyboardInterrupt

Spec == Init /\ [][Next]_vars

\* The worker thread keeps running while it has a step to take.
FairSpec == Spec /\ WF_vars(Worker)

(***************************************************************************)
(* Account.trade_detached: the controlling caller starts the worker thread  *)
(* and polls the event; the termination signal reaches the event, and a     *)
(* KeyboardInterrupt reaches the caller, which runs on the main thread.     *)
(* flags.caller is the caller's position inside trade_detached.             *)
(***************************************************************************)
InitDetached ==
    /\ pc = "active_fetch"
    /\ idx = 0
    /\ cancel = FALSE
    /\ window = [a \in Assets |-> <<>>]
    /\ position = [a \in Assets |-> NoPosition]
    /\ initialBalance \in InitialBalances
    /\ capital = WalletInitCapital(initialBalance)
    /\ savings = initialBalance - capital
    /\ results = <<>>
    /\ exc = "none"
    /\ ended = "running"
    /\ buys = 0
    /\ flags = [iterCancelled |-> FALSE, insolvent |-> FALSE, activeExit |-> "none",
                budgetRefused |-> FALSE, caller |-> "start"]

\* self._init_trader_thread()
CallerStart ==
    /\ flags.caller = "start"
    /\ flags' = [flags EXCEPT !.caller = "wait"]
    /\ UNCHANGED <<pc, idx, cancel, window, position, initialBalance, capital, savings,
                   results, exc, ended, buys>>

\* while not self._trader_event.wait(1)
CallerWait ==
    /\ flags.caller = "wait"
    /\ flags' = [flags EXCEPT !.caller = IF cancel THEN "join" ELSE "pass"]
    /\ UNCHANGED <<pc, idx, cancel, window, position, initialBalance, capital, savings,
                   results, exc, ended, buys>>

\* the body of the polling loop: pass
CallerPass ==
    /\ flags.caller = "pass"
    /\ flags' = [flags EXCEPT !.caller = "wait"]
    /\ UNCHANGED <<pc, idx, cancel, window, position, initialBalance, capital, savings,
                   results, exc, ended, buys>>

\* except KeyboardInterrupt: pass
CallerInterrupt ==
    /\ flags.caller \in {"wait", "pass"}
    /\ flags' = [flags EXCEPT !.caller = "join"]
    /\ UNCHANGED <<pc, idx, cancel, window, position, initialBalance, capital, savings,
                   results, exc, ended, buys>>

\* _join_trader_thread: self._trader_event.set()
CallerSetEvent ==
    /\ flags.caller = "join"
    /\ cancel' = TRUE
    /\ flags' = [flags EXCEPT !.caller = "joining"]
    /\ UNCHANGED <<pc, idx, window, position, initialBalance, capital, savings,
                   results, exc, ended, buys>>

\* _join_trader_thread: self._trader_thread.join() returns once trade() has
\* returned, and trade_detached returns with it.
CallerJoined ==
    /\ flags.caller = "joining"
    /\ pc = "done"
    /\ flags' = [flags EXCEPT !.caller = "returned"]
    /\ UNCHANGED <<pc, idx, cancel, window, position, initialBalance, capital, savings,
                   results, exc, ended, buys>>

Caller ==
    \/ CallerStart
    \/ CallerWait
    \/ CallerPass
    \/ CallerSetEvent
    \/ CallerJoined

\* The worker thread, once started.
DetachedWorker == flags.caller # "start" /\ Worker

NextDetached ==
    \/ DetachedWorker
    \/ Caller
    \/ CallerInterrupt
    \/ SetCancel

SpecDetached == InitDetached /\ [][NextDetached]_vars

\* Both threads keep running while they have a step to take.
FairDetached == SpecDetached /\ WF_vars(DetachedWorker) /\ WF_vars(Caller)

(***************************************************************************)
(* The Asset interface driven directly: any sequence of log_ticker,        *)
(* try_open_position and try_liquidate_position calls on one asset, with   *)
(* any arguments.  pc names the last call and idx the asset it was on.     *)
(***************************************************************************)
ApiAssets == {1}

ApiBudgets == {1, 2}

InitApi ==
    /\ pc = "api_idle"
    /\ idx = 0
    /\ cancel = FALSE
    /\ window = [a \in Assets |-> <<>>]
    /\ position = [a \in Assets |-> NoPosition]
    /\ initialBalance \in InitialBalances
    /\ capital = WalletInitCapital(initialBalance)
    /\ savings = initialBalance - capital
    /\ results = <<>>
    /\ exc = "none"
    /\ ended = "running"
    /\ buys = 0
    /\ flags = NoFlags

ApiLogTicker ==
    \E a \in ApiAssets, price \in Prices :
        /\ window' = [window EXCEPT ![a] = LogTicker(@, price)]
        /\ pc' = "api_log_ticker"
        /\ idx' = a
        /\ exc' = "none"
        /\ UNCHANGED <<cancel, position, initialBalance, capital, savings, results,
                       ended, buys, flags>>

ApiTryOpenPosition ==
    \E a \in ApiAssets, budget \in ApiBudgets, fill \in FillPrices,
       venue \in {"ok", "reject", "timeout", "timeout_balance"} :
        LET o == AssetTryOpenPosition(position[a], window[a], budget, venue, fill)
        IN  /\ buys < MaxBuys
            /\ position' = [position EXCEPT ![a] = o.pos]
            /\ buys' = IF o.filled THEN buys + 1 ELSE buys
            /\ pc' = "api_try_open"
            /\ idx' = a
            /\ exc' = o.exc
            /\ UNCHANGED <<cancel, window, initialBalance, capital, savings, results,
                           ended, flags>>

ApiTryLiquidatePosition ==
    \E a \in ApiAssets, force \in BOOLEAN, quote \in Outcomes,
       venue \in {"ok", "reject", "timeout"} :
      \E outcome \in SellOutcomes(quote) :
        LET r == AssetTryLiquidatePosition(position[a], force, quote, venue, outcome)
        IN  /\ position' = [position EXCEPT ![a] = r.pos]
            /\ pc' = IF r.sold THEN "api_liquidated" ELSE "api_try_liquidate"
            /\ idx' = a
            /\ exc' = r.exc
            /\ UNCHANGED <<cancel, window, initialBalance, capital, savings, results,
                           ended, buys, flags>>

NextApi ==
    \/ ApiLogTicker
    \/ ApiTryOpenPosition
    \/ ApiTryLiquidatePosition

SpecApi == InitApi /\ [][NextApi]_vars

(***************************************************************************)
(* Position.try_liquidate driven directly: one asset whose position is      *)
(* bought at any of PolicyBuyPrices and evaluated against any quote, with   *)
(* and without force.  flags holds the last call: its arguments and what    *)
(* it returned or raised.                                                   *)
(***************************************************************************)
PolicyBuyPrices == {20, 100}

PolicyQuotes == {17, 18, 20, 21, 89, 90, 104, 105, 106}

NoCall == [call |-> "none"]

InitPolicy ==
    /\ pc = "policy_idle"
    /\ idx = 1
    /\ cancel = FALSE
    /\ window = [a \in Assets |-> <<>>]
    /\ position = [a \in Assets |-> NoPosition]
    /\ initialBalance \in InitialBalances
    /\ capital = WalletInitCapital(initialBalance)
    /\ savings = initialBalance - capital
    /\ results = <<>>
    /\ exc = "none"
    /\ ended = "running"
    /\ buys = 0
    /\ flags = NoCall

PolicyOpen ==
    /\ ~position[idx].open
    /\ \E fill \in PolicyBuyPrices :
         LET p == PositionInit(MinQty, 1, "ok", fill)
         IN  /\ position' = [position EXCEPT ![idx] = p.pos]
             /\ exc' = p.exc
             /\ flags' = [call |-> "init", fill |-> fill]
    /\ pc' = "policy_open"
    /\ UNCHANGED <<idx, cancel, window, initialBalance, capital, savings, results,
                   ended, buys>>

PolicyTryLiquidate ==
    /\ position[idx].open
    /\ \E force \in BOOLEAN, quote \in PolicyQuotes, venue \in {"ok", "reject", "timeout"} :
        \E outcome \in SellOutcomes(quote) :
         LET r == AssetTryLiquidatePosition(position[idx], force, quote, venue, outcome)
         IN  /\ position' = [position EXCEPT ![idx] = r.pos]
             /\ exc' = r.exc
             /\ flags' = [call |-> "try_liquidate", force |-> force, quote |-> quote,
                          venue |-> venue, before |-> position[idx],
                          sold |-> r.sold, result |-> r.result]
    /\ pc' = "policy_try_liquidate"
    /\ UNCHANGED <<idx, cancel, window, initialBalance, capital, savings, results,
                   ended, buys>>

NextPolicy ==
    \/ PolicyOpen
    \/ PolicyTryLiquidate

SpecPolicy == InitPolicy /\ [][NextPolicy]_vars

(***************************************************************************)
(* The ignition detector driven directly: an asset configured with any      *)
(* trigger length of TriggerLengths (kept in idx) receives any sequence of  *)
(* ticks and is asked whether it ignited; with the configured trigger       *)
(* length it is also asked to open a position.  flags holds the last call.  *)
(***************************************************************************)
TriggerLengths == {1, 2, 3}

DetectorPrices == {1, 2, 3}

DetectorAsset == 1

InitDetector ==
    /\ pc = "detector_idle"
    /\ idx \in TriggerLengths
    /\ cancel = FALSE
    /\ window = [a \in Assets |-> <<>>]
    /\ position = [a \in Assets |-> NoPosition]
    /\ initialBalance \in InitialBalances
    /\ capital = WalletInitCapital(initialBalance)
    /\ savings = initialBalance - capital
    /\ results = <<>>
    /\ exc = "none"
    /\ ended = "running"
    /\ buys = 0
    /\ flags = NoCall

DetectorLogTicker ==
    /\ \E price \in DetectorPrices :
         window' = [window EXCEPT ![DetectorAsset] = DequeAppend(@, price, idx + 2)]
    /\ pc' = "detector_log_ticker"
    /\ exc' = "none"
    /\ flags' = NoCall
    /\ UNCHANGED <<idx, cancel, position, initialBalance, capital, savings, results,
                   ended, buys>>

DetectorWasIgnited ==
    /\ pc' = "detector_was_ignited"
    /\ exc' = "none"
    /\ flags' = [call |-> "was_ignited",
                 ret |-> WasIgnitedFor(window[DetectorAsset], idx)]
    /\ UNCHANGED <<idx, cancel, window, position, initialBalance, capital, savings,
                   results, ended, buys>>

\* try_open_position on an asset that has received a ticker, once.
DetectorTryOpen ==
    /\ idx = IgnitesToTrigger
    /\ window[DetectorAsset] # <<>>
    /\ buys = 0
    /\ \E fill \in FillPrices :
         LET o == AssetTryOpenPosition(position[DetectorAsset], window[DetectorAsset],
                                       MinQty, "ok", fill)
         IN  /\ position' = [position EXCEPT ![DetectorAsset] = o.pos]
             /\ buys' = IF o.filled THEN buys + 1 ELSE buys
             /\ exc' = o.exc
             /\ flags' = [call |-> "try_open", opened |-> o.opened]
    /\ pc' = "detector_try_open"
    /\ UNCHANGED <<idx, cancel, window, initialBalance, capital, savings, results, ended>>

NextDetector ==
    \/ DetectorLogTicker
    \/ DetectorWasIgnited
    \/ DetectorTryOpen

SpecDetector == InitDetector /\ [][NextDetector]_vars

(***************************************************************************)
(* The tick window driven directly: an asset configured with any trigger    *)
(* length of TriggerLengths (kept in idx) receives any sequence of at most  *)
(* MaxTicks ticks.  flags holds every tick received, in arrival order.      *)
(***************************************************************************)
MaxTicks == 6                  \* log_ticker calls in a run

InitWindow ==
    /\ pc = "window_idle"
    /\ idx \in TriggerLengths
    /\ cancel = FALSE
    /\ window = [a \in Assets |-> <<>>]
    /\ position = [a \in Assets |-> NoPosition]
    /\ initialBalance \in InitialBalances
    /\ capital = WalletInitCapital(initialBalance)
    /\ savings = initialBalance - capital
    /\ results = <<>>
    /\ exc = "none"
    /\ ended = "running"
    /\ buys = 0
    /\ flags = [call |-> "none", ticks |-> <<>>]

WindowLogTicker ==
    /\ Len(flags.ticks) < MaxTicks
    /\ \E price \in DetectorPrices :
         /\ window' = [window EXCEPT ![DetectorAsset] = DequeAppend(@, price, idx + 2)]
         /\ flags' = [call |-> "log_ticker", ticks |-> Append(flags.ticks, price)]
    /\ pc' = "window_log_ticker"
    /\ exc' = "none"
    /\ UNCHANGED <<idx, cancel, position, initialBalance, capital, savings, results,
                   ended, buys>>

NextWindow == WindowLogTicker

SpecWindow == InitWindow /\ [][NextWindow]_vars

(***************************************************************************)
(* The Wallet driven directly: any sequence of budget_for_acquisition,      *)
(* record_acquisition and record_sell calls with any arguments, for any     *)
(* dividend rate of DividendPcts (kept in idx).  flags holds the last call  *)
(* and the ledger as it was before the call.                                *)
(***************************************************************************)
MaxSells == 2                  \* record_sell calls in a run

WalletBalances == {16, 1000}

DividendPcts == {0, 50, 100}

WalletBuyPrices == {4, 100}

WalletSellOutcomes == {0, 4, 8}

Ledger == [capital |-> capital, savings |-> savings, results |-> results]

InitWallet ==
    /\ pc = "wallet_init"
    /\ idx \in DividendPcts
    /\ cancel = FALSE
    /\ window = [a \in Assets |-> <<>>]
    /\ position = [a \in Assets |-> NoPosition]
    /\ initialBalance \in WalletBalances
    /\ capital = WalletInitCapital(initialBalance)
    /\ savings = initialBalance - capital
    /\ results = <<>>
    /\ exc = "none"
    /\ ended = "running"
    /\ buys = 0
    /\ flags = NoCall

WalletBudgetForAcquisition ==
    /\ \E n \in 0..(MaxCoinsToTrade + 1) :
         LET b == BudgetForAcquisition(capital, n)
         IN  /\ exc' = b.exc
             /\ flags' = [call |-> "budget", active |-> n, budget |-> b.budget,
                          propagates |-> OpenPassPropagates(b.exc), before |-> Ledger]
    /\ pc' = "wallet_budget"
    /\ UNCHANGED <<idx, cancel, window, position, initialBalance, capital, savings,
                   results, ended, buys>>

WalletRecordAcquisition ==
    /\ buys < MaxBuys
    /\ \E price \in WalletBuyPrices :
         /\ capital' = RecordAcquisition(capital, [open |-> TRUE, buyPrice |-> price,
                                                   heldFor |-> 0])
         /\ flags' = [call |-> "record_acquisition", price |-> price, before |-> Ledger]
    /\ buys' = buys + 1
    /\ exc' = "none"
    /\ pc' = "wallet_record_acquisition"
    /\ UNCHANGED <<idx, cancel, window, position, initialBalance, savings, results, ended>>

WalletRecordSell ==
    /\ Len(results) < MaxSells
    /\ \E buy \in WalletBuyPrices, sell \in WalletSellOutcomes, balanceOk \in BOOLEAN :
         LET result == [buy |-> buy, sell |-> sell, reason |-> "Forced"]
             w == RecordSellAt(capital, savings, results, result, balanceOk, idx)
         IN  /\ capital' = w.capital
             /\ savings' = w.savings
             /\ results' = w.results
             /\ exc' = w.exc
             /\ flags' = [call |-> "record_sell", result |-> result, before |-> Ledger]
    /\ pc' = "wallet_record_sell"
    /\ UNCHANGED <<idx, cancel, window, position, initialBalance, ended, buys>>

\* The open pass taking the last free slot (account.py lines 106-110): the
\* budget granted is the whole capital, the venue fills the buy order at the
\* budget or above it, and the position is recorded.
WalletSlippages == {0, 4}      \* Order.price of the fill minus the budget

WalletOpenLastSlot ==
    /\ buys < MaxBuys
    /\ \E slippage \in WalletSlippages :
         LET b == BudgetForAcquisition(capital, MaxCoinsToTrade - 1)
             fill == b.budget + slippage
         IN  /\ b.exc = "none"
             /\ capital' = RecordAcquisition(capital, [open |-> TRUE, buyPrice |-> fill,
                                                       heldFor |-> 0])
             /\ flags' = [call |-> "open", budget |-> b.budget, price |-> fill,
                          before |-> Ledger]
    /\ buys' = buys + 1
    /\ exc' = "none"
    /\ pc' = "wallet_open"
    /\ UNCHANGED <<idx, cancel, window, position, initialBalance, savings, results, ended>>

NextWallet ==
    \/ WalletBudgetForAcquisition
    \/ WalletRecordAcquisition
    \/ WalletRecordSell
    \/ WalletOpenLastSlot

SpecWallet == InitWallet /\ [][NextWallet]_vars

(***************************************************************************)
(* Properties of the worker.                                               *)
(***************************************************************************)
OpenCount == Cardinality({a \in Assets : position[a].open})

FatalEnds == {"fatal_active", "fatal_drain", "fatal_closing"}

SweepEnds == {"completed", "insolvent_closing", "transient_closing"}

Terminated == pc = "done"

\* C1: whenever the worker has terminated without a fatal data-source
\* failure, no asset has an open position.
C1_NoPositionSurvivesTermination ==
    (Terminated /\ ended \notin FatalEnds) => OpenCount = 0

\* C2: a worker that has terminated without a fatal data-source failure has
\* executed the Closing sweep (it ended in or after the sweep's close pass
\* or in the sweep's own fetch).
C2_SweepBeforeTermination ==
    (Terminated /\ ended \notin FatalEnds) => ended \in SweepEnds

\* C3: at most MaxCoinsToTrade assets have an open position in every
\* reachable state; once the count has reached MaxCoinsToTrade the open pass
\* goes on to no further asset, fills no buy order and opens nothing; and a
\* position is opened only by the open pass, with the count below
\* MaxCoinsToTrade.
C3_AtMostMaxSlotsOpen ==
    /\ [](OpenCount <= MaxCoinsToTrade)
    /\ [][(pc = "active_open" /\ OpenCount >= MaxCoinsToTrade)
            => /\ position' = position
               /\ buys' = buys
               /\ pc' = "active_open" => idx' = idx]_vars
    /\ [][(\E a \in Assets : position'[a].open /\ ~position[a].open)
            => (pc = "active_open" /\ OpenCount < MaxCoinsToTrade)]_vars

\* The open pass reaches an ignited asset without a position while every slot
\* is taken.
C3_Witness ==
    /\ pc = "active_wait"
    /\ OpenCount = MaxCoinsToTrade
    /\ \E a \in Assets : ~position[a].open /\ WasIgnited(window[a])
    /\ capital > 0

\* C4: try_open_position on an asset that has an open position raises
\* AlreadyOpen and leaves the position as it was; try_liquidate_position on
\* an asset without a position raises NotOpen; and a call that opens a
\* position finds the asset without one.
C4_OnePositionPerAsset ==
    /\ [][(pc' = "api_try_open" /\ position[idx'].open)
            => (exc' = "AlreadyOpen" /\ position' = position /\ buys' = buys)]_vars
    /\ [][(pc' \in {"api_try_liquidate", "api_liquidated"} /\ ~position[idx'].open)
            => (exc' = "NotOpen" /\ position' = position)]_vars
    /\ [][(pc' = "api_try_open" /\ buys' > buys) => ~position[idx'].open]_vars

\* A second try_open_position was refused on an ignited asset holding a
\* position.
C4_Witness ==
    /\ pc = "api_try_open"
    /\ exc = "AlreadyOpen"
    /\ position[idx].open
    /\ WasIgnited(window[idx])

\* C5: a step that raises InsufficientFunds leaves the Active phase, and once
\* InsufficientFunds has been raised the worker is never in the Active phase
\* again, fills no buy order and opens no position.
C5_InsufficientFundsEndsBuying ==
    /\ [][exc' = "Insufficient" => pc' \notin ActivePcs]_vars
    /\ [][flags.insolvent =>
            /\ pc' \notin ActivePcs
            /\ buys' = buys
            /\ \A a \in Assets : position'[a].open => position[a].open]_vars

\* InsufficientFunds ended the Active phase with a position still open, and
\* the worker is now closing it.
C5_Witness ==
    /\ flags.insolvent
    /\ flags.activeExit = "insufficient"
    /\ pc = "drain_close"
    /\ OpenCount > 0

\* C6: an InsufficientFunds raised by record_sell during Draining does not
\* end Draining while another position is still open.
C6_InsufficientFundsKeepsDraining ==
    [][(pc = "drain_close" /\ exc' = "Insufficient" /\ OpenCount' > 0)
         => pc' \in DrainPcs]_vars

\* C7 as stated: after cancellation is signalled the worker eventually
\* terminates.
C7_TerminatesAfterCancel == cancel ~> Terminated

\* C7: after cancellation is signalled the worker eventually terminates or
\* stays in Draining for ever with a position open; and Draining hands over
\* to the Closing sweep with a position still open only on InsufficientFunds
\* or an interrupt, never for having run some number of cycles.
C7_TerminatesOrDrainsForever ==
    /\ (cancel ~> Terminated) \/ <>[](pc \in DrainPcs /\ OpenCount > 0)
    /\ [][(pc \in DrainPcs /\ pc' \in ClosingPcs /\ OpenCount' > 0)
            => exc' \in {"Insufficient", "KeyboardInterrupt"}]_vars

\* A cancelled worker drained its positions and completed the sweep.
C7_Witness ==
    /\ cancel
    /\ flags.activeExit = "cancel"
    /\ Terminated
    /\ ended = "completed"
    /\ results # <<>>

\* C8: the interval wait that finds the cancel signal set leaves the Active
\* phase, and after the Active phase no step returns to it, fills a buy
\* order or opens a position.
C8_CancelLeavesActiveAtWait ==
    /\ [][(pc = "active_wait" /\ cancel) => pc' \notin ActivePcs]_vars
    /\ [][pc \notin ActivePcs =>
            /\ pc' \notin ActivePcs
            /\ buys' = buys
            /\ \A a \in Assets : position'[a].open => position[a].open]_vars

\* The wait saw the signal and the worker went on to drain an open position.
C8_Witness ==
    /\ cancel
    /\ flags.activeExit = "cancel"
    /\ ~flags.insolvent
    /\ pc = "drain_fetch"
    /\ OpenCount > 0

C10_TransientFetchNeverTerminates ==
    [][(pc \in {"active_fetch", "drain_fetch", "closing_fetch"} /\ exc' = "Transient")
         => pc' # "done"]_vars

\* C11: a fetch that raises RuntimeError in the Active or the Draining phase
\* ends the worker in that very step, with every position, the ledger and the
\* count of filled buy orders as they were; and a terminated worker takes no
\* further step, so the positions open at that moment stay open.
C11_FatalFetchEndsWorker ==
    /\ [][(pc \in {"active_fetch", "drain_fetch"} /\ exc' = "Fatal")
            => /\ pc' = "done"
               /\ ended' \in {"fatal_active", "fatal_drain"}
               /\ UNCHANGED <<position, capital, savings, results, buys>>]_vars
    /\ [][Terminated => UNCHANGED <<pc, position, capital, savings, results, buys>>]_vars

\* The Draining fetch failed fatally with a position open.
C11_Witness ==
    /\ Terminated
    /\ ended = "fatal_drain"
    /\ exc = "Fatal"
    /\ OpenCount > 0

\* C12: for every buy price, quote and value of force, a liquidation has
\* reason StopLoss when the ratio quote / buy price is below the stop-loss,
\* otherwise TakeProfit when it is at least the take-profit, otherwise Forced
\* when force is set; otherwise nothing is returned and the position stays
\* open.  A liquidation the venue accepts is returned and clears the position.
C12_LiquidationPrecedence ==
    flags.call = "try_liquidate" =>
      LET ratioPct == flags.quote * 100
          buy == flags.before.buyPrice
          below == ratioPct < StopLossPct * buy
          above == ratioPct >= TakeProfitPct * buy
          expected == IF below THEN "StopLoss"
                      ELSE IF above THEN "TakeProfit"
                      ELSE IF flags.force THEN "Forced"
                      ELSE "None"
      IN  /\ flags.sold => flags.result.reason = expected
          /\ flags.sold <=> (expected # "None" /\ flags.venue = "ok")
          /\ position[idx].open <=> ~flags.sold
          /\ expected = "None" => (exc = "none" /\ position[idx].buyPrice = buy)

\* A forced close of a position below its stop-loss reported StopLoss.
C12_Witness ==
    /\ flags.call = "try_liquidate"
    /\ flags.force
    /\ flags.sold
    /\ flags.result.reason = "StopLoss"
    /\ ~position[idx].open

\* C24: a try_open_position that raises the sizing error (the lots are below
\* min_qty or the price is below min_price) changes nothing: the asset still
\* has no position, no buy order was filled, every tick window is as it was,
\* and capital, savings and the recorded results are as they were.
C24_SizingErrorChangesNothing ==
    [][(pc = "active_open" /\ exc' = "Sizing") =>
         /\ UNCHANGED <<position, window, buys, capital, savings, results>>
         /\ pc' = "active_open"
         /\ idx' > 0 => ~position'[idx' - 1].open]_vars

\* The open pass was refused a position on an ignited asset for its size and
\* is at the next asset.
C24_Witness ==
    /\ pc = "active_open"
    /\ exc = "Sizing"
    /\ idx > 1
    /\ ~position[idx - 1].open
    /\ WasIgnited(window[idx - 1])
    /\ LotsToBuyRejects(BudgetForAcquisition(capital, OpenCount).budget,
                        FromEnd(window[idx - 1], 1))

ClosePcs == {"active_close", "drain_close", "closing_close"}

\* C25: a sizing error, AlreadyOpen or NotOpen raised for one asset does not
\* abort the pass.  A close pass whose sell order is refused (sizing error or
\* venue error) stays in its pass, in its phase, and goes on at the asset
\* after the one refused, having skipped only assets without a position; an
\* open pass refused for size stays in its pass and goes on at the asset
\* after the one refused, having skipped only assets with a position; and
\* neither pass lets any of the three errors through.
C25_PerAssetErrorContinuesPass ==
    /\ [][(pc \in ClosePcs /\ cancel' = cancel /\ exc' \in {"Venue", "Sizing", "NotOpen"}) =>
            /\ pc' = pc
            /\ ended' = ended
            /\ idx' > idx
            /\ position[idx' - 1].open
            /\ \A b \in Assets : (idx <= b /\ b < idx' - 1) => ~position[b].open]_vars
    /\ [][(pc = "active_open" /\ cancel' = cancel /\ exc' \in {"Sizing", "AlreadyOpen"}) =>
            /\ pc' = pc
            /\ ended' = ended
            /\ idx' > idx
            /\ ~position[idx' - 1].open
            /\ \A b \in Assets : (idx <= b /\ b < idx' - 1) => position[b].open]_vars
    /\ [](\A e \in {"Sizing", "AlreadyOpen", "NotOpen"} :
            ~OpenPassPropagates(e) /\ ~ClosePassPropagates(e))

\* The sell order of the first asset was refused in the Draining close pass,
\* which is now at the second asset, another one with a position.
C25_Witness ==
    /\ pc = "drain_close"
    /\ exc = "Venue"
    /\ idx = 2
    /\ position[1].open
    /\ position[2].open

PassPcs == {"active_fetch", "active_close", "active_open"}

\* The exceptions that end an Active cycle before its passes are through.
CycleEnders == {"Insufficient", "Transient", "Fatal", "KeyboardInterrupt"}

Liquidated == {a \in Assets : position[a].open /\ ~position'[a].open}

\* C27: in every step, in whichever phase, the recorded results grow by exactly
\* one result per position closed, which is the result of that position
\* appended after the ones recorded before, and the position closed is
\* cleared; so that the number of recorded results is the number of
\* liquidations performed, and with the positions open it never exceeds the
\* number of buy orders filled.
C27_EveryLiquidationRecordedOnce ==
    /\ [][/\ Len(results') = Len(results) + Cardinality(Liquidated)
           /\ SubSeq(results', 1, Len(results)) = results
           /\ \A a \in Liquidated :
                 /\ position'[a] = NoPosition
                 /\ results'[Len(results')].buy = position[a].buyPrice
                 /\ results'[Len(results')].reason # "None"]_vars
    /\ [](Len(results) + OpenCount <= buys)

\* Positions were liquidated in the Active phase, in Draining and by the
\* Closing sweep, and each one is in the results.
C27_Witness ==
    /\ Terminated
    /\ ended = "completed"
    /\ OpenCount = 0
    /\ Len(results) = MaxBuys
    /\ buys = MaxBuys
    /\ results[Len(results)].reason = "Forced"

\* C28: a result with reason Forced is produced only by the close pass of the
\* Closing sweep; every result the Active and the Draining close passes
\* produce has reason StopLoss or TakeProfit, so that no Forced result is
\* recorded before the sweep.
C28_ForcedOnlyInClosingSweep ==
    /\ [][results' # results =>
            LET reason == results'[Len(results')].reason
            IN  /\ reason = "Forced" => pc = "closing_close"
                /\ pc \in {"active_close", "drain_close"}
                      => reason \in {"StopLoss", "TakeProfit"}]_vars
    /\ [](pc \in ActivePcs \cup DrainPcs \cup {"closing_fetch"}
            => \A i \in 1..Len(results) : results[i].reason # "Forced")

\* The sweep has forced one position closed, after a take-profit earlier in
\* the session, and still has a position to close.
C28_Witness ==
    /\ pc = "closing_close"
    /\ Len(results) = 2
    /\ results[1].reason = "TakeProfit"
    /\ results[2].reason = "Forced"
    /\ OpenCount > 0

\* C30: a try_liquidate that returns nothing has counted one more evaluation
\* in held-for (up to the bound of the model) and has left the buy price and
\* the asset's open position as they were, with the ledger (capital, savings,
\* results) as initialized; and it returns nothing, raising nothing, whatever
\* the venue would answer to a real order, the quote being simulated.
C30_EvaluateNoneCommitsNothing ==
    /\ (flags.call = "try_liquidate" /\ ~flags.sold /\ exc = "none") =>
          /\ flags.before.open /\ position[idx].open
          /\ position[idx].buyPrice = flags.before.buyPrice
          /\ position[idx].heldFor =
                (IF flags.before.heldFor < MaxHeldFor THEN flags.before.heldFor + 1
                 ELSE MaxHeldFor)
          /\ capital = WalletInitCapital(initialBalance)
          /\ savings = initialBalance - capital
          /\ results = <<>>
          /\ buys = 0
    /\ (flags.call = "try_liquidate"
          /\ LiquidationReason(flags.before.buyPrice, flags.quote, flags.force) = "None")
          => (exc = "none" /\ ~flags.sold)

\* The first evaluation of a position, on a quote between the thresholds and
\* with a venue that would have timed out, returned nothing.
C30_Witness ==
    /\ flags.call = "try_liquidate"
    /\ ~flags.sold
    /\ exc = "none"
    /\ flags.venue = "timeout"
    /\ ~flags.force
    /\ flags.before.heldFor = 0
    /\ position[idx].heldFor = 1
    /\ position[idx].open

\* C32: in detached mode, once the worker has finished with the event unset,
\* the caller eventually returns from trade_detached, unless the event is set
\* by a signal or by the caller's own interrupt first.
C32_CallerReturnsWhenWorkerFinishes ==
    (Terminated /\ ~cancel) ~> (flags.caller = "returned" \/ cancel)

\* C33: at the end of a cycle every buy order filled at the venue is either an
\* open position or a recorded result, and a step in which a buy order is
\* filled opens a position and debits its price from the capital.
C33_FilledBuyIsTracked ==
    /\ [](pc = "active_wait" => buys = OpenCount + Len(results))
    /\ [][buys' > buys =>
            \E a \in Assets : /\ ~position[a].open
                              /\ position'[a].open
                              /\ capital' = capital - position'[a].buyPrice]_vars

\* The open pass is at an asset without a position and a slot is free: the
\* next step asks the ledger for a budget.
OpenPassAsksBudget ==
    /\ pc = "active_open"
    /\ ~SlotsExhausted(CountOpenPositions)
    /\ \E a \in Rest(idx) : HasNoPosition(a)

NoDetectorFired == \A a \in Assets : ~WasIgnited(window[a])

\* C34: when the open pass asks a budget and the ledger refuses it for lack of
\* capital, the step ends the Active phase and buys nothing, whether or not
\* any asset's detector fired.
C34_BudgetRefusalEndsActive ==
    [][(OpenStep /\ OpenPassAsksBudget
          /\ BudgetForAcquisition(capital, CountOpenPositions).exc = "Insufficient")
        => /\ pc' = "drain_check"
           /\ exc' = "Insufficient"
           /\ flags'.activeExit = "insufficient"
           /\ UNCHANGED <<position, capital, buys>>]_vars

C34_Witness ==
    /\ pc = "drain_check"
    /\ exc = "Insufficient"
    /\ flags.budgetRefused
    /\ flags.activeExit = "insufficient"
    /\ NoDetectorFired

(***************************************************************************)
(* Properties of the ignition detector.                                    *)
(***************************************************************************)
Win == window[DetectorAsset]

\* No adjacent pair among the last n + 1 prices of w decreases.
NonDecreasingTail(w, n) ==
    \A k \in 1..n : w[Len(w) - k + 1] >= w[Len(w) - k]

\* C13: the detector fires iff the window holds at least N + 1 ticks, no
\* adjacent pair among the last N + 1 prices decreases, and the newest price
\* is greater than the price N ticks back.
C13_DetectorFiresIff ==
    flags.call = "was_ignited" =>
      (flags.ret <=> /\ Len(Win) >= idx + 1
                     /\ NonDecreasingTail(Win, idx)
                     /\ Win[Len(Win)] > Win[Len(Win) - idx])

\* C14: on a window of exactly N + 1 strictly increasing prices the detector
\* returns true.
C14_StrictlyIncreasingFires ==
    (/\ flags.call = "was_ignited"
     /\ Len(Win) = idx + 1
     /\ \A k \in 1..idx : Win[k] < Win[k + 1])
        => flags.ret

\* C15: on a window of exactly N + 1 prices the detector returns false when
\* some adjacent pair decreases, and returns false when the last price equals
\* the first.
C15_DecreaseOrFlatDoesNotFire ==
    (flags.call = "was_ignited" /\ Len(Win) = idx + 1) =>
        /\ (\E k \in 1..idx : Win[k + 1] < Win[k]) => ~flags.ret
        /\ Win[Len(Win)] = Win[1] => ~flags.ret

\* The detector refused a window of four equal prices (N = 3).
C15_Witness ==
    /\ flags.call = "was_ignited"
    /\ ~flags.ret
    /\ idx = 3
    /\ Len(Win) = idx + 1
    /\ \A k \in 1..idx : Win[k] = Win[k + 1]

\* C16: on a window of fewer than N + 1 ticks the detector returns false;
\* try_open_position then returns nothing and raises nothing, and an asset
\* that has a position has received at least N + 1 ticks.
C16_ShortWindowDoesNotFire ==
    /\ (flags.call = "was_ignited" /\ Len(Win) < idx + 1) => ~flags.ret
    /\ (flags.call = "try_open" /\ Len(Win) < IgnitesToTrigger + 1)
          => (~flags.opened /\ exc = "none" /\ buys = 0)
    /\ position[DetectorAsset].open => Len(Win) >= IgnitesToTrigger + 1

\* try_open_position returned nothing on a rising window one tick short.
C16_Witness ==
    /\ flags.call = "try_open"
    /\ Len(Win) = IgnitesToTrigger
    /\ \A k \in 1..(IgnitesToTrigger - 1) : Win[k] < Win[k + 1]
    /\ ~position[DetectorAsset].open
    /\ exc = "none"

\* C29: after k log_ticker calls the window holds exactly the last
\* min(k, N + 2) ticks received, in arrival order with the newest last; it
\* never holds more than N + 2, the oldest being the one dropped.
C29_WindowHoldsLastTicks ==
    LET k == Len(flags.ticks)
        m == IF k < idx + 2 THEN k ELSE idx + 2
    IN  /\ Len(Win) = m
        /\ Len(Win) <= idx + 2
        /\ \A i \in 1..m : Win[i] = flags.ticks[k - m + i]

\* One tick more than the window holds was received, and the first one, which
\* differs from the second, is gone.
C29_Witness ==
    /\ idx = IgnitesToTrigger
    /\ Len(flags.ticks) = WindowCapacity + 1
    /\ Len(Win) = WindowCapacity
    /\ flags.ticks[1] # flags.ticks[2]
    /\ Win[1] = flags.ticks[2]
    /\ Win[Len(Win)] = flags.ticks[Len(flags.ticks)]

(***************************************************************************)
(* Properties of the Wallet.                                               *)
(***************************************************************************)
LedgerUnchanged == Ledger = flags.before

\* C17: with fewer than MaxCoinsToTrade positions open, a budget that is
\* returned equals max(capital / slots, MinimumBuyPrice) (compared after
\* multiplying by slots) and does not exceed capital; InsufficientFunds is
\* raised exactly when that budget exceeds capital; the ledger is unchanged.
C17_BudgetWithinCapital ==
    (flags.call = "budget" /\ flags.active < MaxCoinsToTrade) =>
      LET slots == MaxCoinsToTrade - flags.active
          cap == flags.before.capital
          timesSlots == IF cap >= MinimumBuyPrice * slots THEN cap
                        ELSE MinimumBuyPrice * slots
      IN  /\ exc \in {"none", "Insufficient"}
          /\ exc = "none" => (flags.budget * slots = timesSlots /\ flags.budget <= cap)
          /\ exc = "Insufficient" <=> timesSlots > cap * slots
          /\ LedgerUnchanged

\* With no position open, half of a positive capital was budgeted.
C17_Witness ==
    /\ flags.call = "budget"
    /\ flags.active = 0
    /\ exc = "none"
    /\ capital > 0
    /\ flags.budget * MaxCoinsToTrade = capital

\* C18: with MaxCoinsToTrade positions or more open, budget_for_acquisition
\* raises TooManySlots whatever the capital, the open pass catches it and goes
\* on, and the ledger is unchanged.
C18_TooManySlots ==
    (flags.call = "budget" /\ flags.active >= MaxCoinsToTrade) =>
        /\ exc = "TooManySlots"
        /\ ~flags.propagates
        /\ LedgerUnchanged

\* TooManySlots was raised on a capital that could not have paid a budget.
C18_Witness ==
    /\ flags.call = "budget"
    /\ flags.active = MaxCoinsToTrade
    /\ exc = "TooManySlots"
    /\ capital <= 0

Profitable(result) == result.sell > result.buy

SavingsGainTimes100 == (savings - flags.before.savings) * 100

\* C19 as stated, of the calls whose balance query is answered: record_sell
\* with a profitable result strictly increases savings, by exactly
\* absolute * dividend rate, for every dividend rate; with a non-profitable
\* result it leaves savings unchanged.
C19_DividendStrictlyIncreasesSavings ==
    (flags.call = "record_sell" /\ exc # "Transient") =>
      LET absolute == flags.result.sell - flags.result.buy
      IN  IF Profitable(flags.result)
            THEN savings > flags.before.savings /\ SavingsGainTimes100 = absolute * idx
          ELSE savings = flags.before.savings

\* C19: a record_sell whose balance query is answered increases savings by
\* exactly absolute * dividend rate on a profitable result, strictly when the
\* rate is positive and by nothing when the rate is 0, and leaves savings
\* unchanged on a non-profitable result; a record_sell whose balance query
\* raises leaves savings unchanged.
C19_DividendIncreasesSavings ==
    flags.call = "record_sell" =>
      LET absolute == flags.result.sell - flags.result.buy
      IN  IF exc = "Transient" THEN savings = flags.before.savings
          ELSE IF Profitable(flags.result)
            THEN /\ SavingsGainTimes100 = absolute * idx
                 /\ idx > 0 => savings > flags.before.savings
                 /\ idx = 0 => savings = flags.before.savings
          ELSE savings = flags.before.savings

\* A profitable result was recorded at dividend rate 0 and savings stayed.
C19_Witness ==
    /\ flags.call = "record_sell"
    /\ exc = "none"
    /\ Profitable(flags.result)
    /\ idx = 0
    /\ savings = flags.before.savings

\* C20: no call of the Wallet decreases savings.
C20_SavingsNeverDecrease == [][savings' >= savings]_vars

\* Savings grew, and a later record_sell raised InsufficientFunds.
C20_Witness ==
    /\ flags.call = "record_sell"
    /\ exc = "Insufficient"
    /\ Len(results) = 2
    /\ savings > initialBalance - WalletInitCapital(initialBalance)

\* C21: capital is not negative after initialization, and an operation that
\* starts with capital not negative and completes without raising
\* InsufficientFunds leaves it not negative: record_sell, and the
\* record_acquisition of a position opened on a granted budget, whatever the
\* price of its fill against that budget.
C21_CapitalNeverNegative ==
    /\ [](pc = "wallet_init" => capital >= 0)
    /\ [][(/\ capital >= 0
           /\ pc' \in {"wallet_open", "wallet_record_sell"}
           /\ exc' # "Insufficient") => capital' >= 0]_vars

\* The absolute profit of the result the last record_sell was given.
LastResultAbsolute == flags.result.sell - flags.result.buy

\* C22: with no result recorded pnl().absolute is 0; every record_sell,
\* whether it returns or raises, moves pnl().absolute by exactly the absolute
\* profit of its result and no other call moves it, so that it is the sum over
\* the recorded results; and pnl().ratio is that sum over the initial balance.
C22_PnlIsSumOfResults ==
    /\ [](results = <<>> => WalletPnl(results, initialBalance).absolute = 0)
    /\ [](LET p == WalletPnl(results, initialBalance)
          IN  p.ratioNum = p.absolute /\ p.ratioDen = initialBalance /\ p.ratioDen > 0)
    /\ [][WalletPnl(results', initialBalance').absolute =
            WalletPnl(results, initialBalance).absolute +
              (IF pc' = "wallet_record_sell" THEN LastResultAbsolute' ELSE 0)]_vars

\* A loss and a profit of the same size were recorded, the second by a call
\* whose balance query raised, and the total is back at 0.
C22_Witness ==
    /\ Len(results) = 2
    /\ results[1].sell < results[1].buy
    /\ results[2].sell > results[2].buy
    /\ exc = "Transient"
    /\ flags.call = "record_sell"
    /\ WalletPnl(results, initialBalance).absolute = 0

\* C23: Wallet initialization from balance B sets capital = B * treasury
\* ratio and savings = B - capital, so that capital + savings = B, with no
\* result recorded (B = 1000 at ratio 0.5 gives 500 and 500); and
\* record_acquisition decreases capital by exactly the buy price of the
\* position (100 off 500 gives 400) and leaves savings and results unchanged.
C23_InitAndAcquisition ==
    /\ pc = "wallet_init" =>
          /\ capital * 100 = initialBalance * TreasuryPct
          /\ savings = initialBalance - capital
          /\ capital + savings = initialBalance
          /\ results = <<>>
          /\ initialBalance = 1000 => (capital = 500 /\ savings = 500)
    /\ flags.call \in {"record_acquisition", "open"} =>
          /\ capital = flags.before.capital - flags.price
          /\ savings = flags.before.savings
          /\ results = flags.before.results
          /\ (flags.before.capital = 500 /\ flags.price = 100) => capital = 400

\* A position bought for 100 was recorded on the initial capital of 500.
C23_Witness ==
    /\ flags.call = "record_acquisition"
    /\ initialBalance = 1000
    /\ flags.before.capital = 500
    /\ flags.price = 100
    /\ capital = 400
    /\ savings = 500

\* C31: a record_sell whose balance query is answered with the override
\* amount sets capital to the capital before + the sell outcome - the
\* dividend, the dividend being what savings grew by (absolute * rate on a
\* profitable result, 0 otherwise), so that capital + savings grows by the
\* sell outcome; and it raises InsufficientFunds exactly when that capital is
\* <= 0.
C31_RecordSellReconcilesCapital ==
    (flags.call = "record_sell" /\ exc # "Transient") =>
      LET dividend == savings - flags.before.savings
          absolute == flags.result.sell - flags.result.buy
      IN  /\ dividend * 100 = (IF Profitable(flags.result) THEN absolute * idx ELSE 0)
          /\ capital = flags.before.capital + flags.result.sell - dividend
          /\ capital + savings =
                flags.before.capital + flags.before.savings + flags.result.sell
          /\ exc = "Insufficient" <=> capital <= 0
          /\ exc \in {"none", "Insufficient"}

\* A worthless sale recorded on a capital that was all spent left capital at
\* exactly 0 and raised InsufficientFunds.
C31_Witness ==
    /\ flags.call = "record_sell"
    /\ exc = "Insufficient"
    /\ flags.before.capital = 0
    /\ flags.result.sell = 0
    /\ capital = 0

====
